---- MODULE Spec2Model ----
(***************************************************************************)
(* A model of services/simple_rag.py (class SimpleRAG): the chunker, the   *)
(* per-chat document store with its global registry, the keyword           *)
(* retriever, the web-search classifier and the prompt composer.           *)
(*                                                                         *)
(* Strings and byte strings are sequences of one-character strings, so     *)
(* that substring tests, lower-casing, splitting and slicing are computed  *)
(* as Python computes them.  A fixed piece of a prompt template is one     *)
(* element of such a sequence.  Time stamps (upload_time) are left out:    *)
(* nothing in the class reads them.                                        *)
(***************************************************************************)
EXTENDS Integers, Sequences, FiniteSets, TLC

VARIABLES
    use_cloudinary,      \* self.use_cloudinary, fixed by __init__
    files,               \* the paths present under self.documents_dir
    chat_documents,      \* self.chat_documents: chat_id -> ordered dict
    documents_metadata,  \* self.documents_metadata: the global registry
    last,                \* the call made last: operation, arguments, steps, result
    procs,               \* interleaved calls: one sequential caller per chat
    live,                \* per chat, the entries ingested and not deleted since
    c_text, c_size, c_overlap, c_start, c_chunks, c_pc,   \* chunk_text's frame
    q_query, q_chunk, q_result, q_pc                      \* a pure query function's frame

storeVars == <<use_cloudinary, files, chat_documents, documents_metadata, last>>
concVars  == <<procs, live>>
chunkVars == <<c_text, c_size, c_overlap, c_start, c_chunks, c_pc>>
queryVars == <<q_query, q_chunk, q_result, q_pc>>
vars == <<storeVars, concVars, chunkVars, queryVars>>

---------------------------------------------------------------------------
(* Bounds of the model.                                                    *)

MaxDocs == 2          \* registry entries in the sequential store model
MaxTextLen == 6       \* length of a text given to chunk_text
MaxChunkSize == 5     \* chunk_size given to chunk_text
MaxChunks == 8        \* chunks collected before the model stops following a loop
MaxQueryLen == 3      \* characters of a scored query
MaxChunkLen == 2      \* characters of a scored chunk
MaxQueryWords == 2    \* phrases joined into a classified query
MaxOps == 2           \* calls each chat's caller makes in the interleaved model

(* Program constants.                                                      *)

DefaultChunkSize == 1000
DefaultOverlap == 200
SnapLimit == 100
TopK == 3

---------------------------------------------------------------------------
(* Python's str / bytes primitives.                                        *)

None == "None"

Whitespace == {" ", "\n", "\t"}

UpperCase == <<"A","B","C","D","E","F","G","H","I","J","K","L","M",
               "N","O","P","Q","R","S","T","U","V","W","X","Y","Z">>
LowerCase == <<"a","b","c","d","e","f","g","h","i","j","k","l","m",
               "n","o","p","q","r","s","t","u","v","w","x","y","z">>

LowerChar(c) ==
    IF \E i \in 1..26 : UpperCase[i] = c
    THEN LowerCase[CHOOSE i \in 1..26 : UpperCase[i] = c]
    ELSE c

\* str.lower()
PyLower(s) == [i \in 1..Len(s) |-> LowerChar(s[i])]

\* s[p:] starts with kw, p a 1-based position
StartsAt(s, kw, p) ==
    /\ p >= 1
    /\ p + Len(kw) - 1 <= Len(s)
    /\ \A j \in 1..Len(kw) : s[p + j - 1] = kw[j]

\* kw in s
PyIn(kw, s) == \E p \in 1..(Len(s) + 1) : StartsAt(s, kw, p)

\* str.strip()
PyStrip(s) ==
    IF \A i \in 1..Len(s) : s[i] \in Whitespace
    THEN <<>>
    ELSE LET a == CHOOSE i \in 1..Len(s) :
                      /\ s[i] \notin Whitespace
                      /\ \A j \in 1..(i - 1) : s[j] \in Whitespace
             b == CHOOSE i \in 1..Len(s) :
                      /\ s[i] \notin Whitespace
                      /\ \A j \in (i + 1)..Len(s) : s[j] \in Whitespace
         IN  SubSeq(s, a, b)

\* str.split(): the maximal runs of non-whitespace, in order
RECURSIVE SplitFrom(_, _, _)
SplitFrom(s, p, cur) ==
    IF p > Len(s)
    THEN IF cur = <<>> THEN <<>> ELSE <<cur>>
    ELSE IF s[p] \in Whitespace
         THEN (IF cur = <<>> THEN <<>> ELSE <<cur>>) \o SplitFrom(s, p + 1, <<>>)
         ELSE SplitFrom(s, p + 1, Append(cur, s[p]))

PySplit(s) == SplitFrom(s, 1, <<>>)

\* a normalised slice index: Python clamps it into 0..len after wrapping
SliceIndex(n, i) ==
    IF i < 0 THEN (IF n + i < 0 THEN 0 ELSE n + i)
    ELSE IF i > n THEN n ELSE i

\* s[a:b], a and b 0-based as in Python
PySlice(s, a, b) ==
    LET lo == SliceIndex(Len(s), a)
        hi == SliceIndex(Len(s), b)
    IN  IF lo >= hi THEN <<>> ELSE SubSeq(s, lo + 1, hi)

\* s[i] is defined (no IndexError), i 0-based, negative i counted from the end
PyIndexOk(s, i) == -Len(s) <= i /\ i < Len(s)

\* s[i]
PyIndex(s, i) == IF i >= 0 THEN s[i + 1] ELSE s[Len(s) + i + 1]

\* Path(filename).suffix.lower(): from the last dot, unless that dot is the
\* first or the last character of the name
Suffix(filename) ==
    LET dots == {p \in 1..Len(filename) : filename[p] = "."}
    IN  IF dots = {} THEN <<>>
        ELSE LET p == CHOOSE d \in dots : \A e \in dots : e <= d
             IN  IF 1 < p /\ p < Len(filename)
                 THEN PyLower(SubSeq(filename, p, Len(filename)))
                 ELSE <<>>

---------------------------------------------------------------------------
(* chunk_text.                                                             *)

SentenceEnd == {".", "!", "?", "\n"}

Max(a, b) == IF a >= b THEN a ELSE b

\* range(end, max(start + chunk_size//2, end - 100), -1), as a set
ScanRange(start, chunk_size) ==
    (Max(start + (chunk_size \div 2), start + chunk_size - SnapLimit) + 1)
        ..(start + chunk_size)

\* the first index the backward scan stops at, or -1: a sentence end, or an
\* index that text[i] cannot read
ScanHit(text, start, chunk_size) ==
    LET stops == {i \in ScanRange(start, chunk_size) :
                     \/ ~PyIndexOk(text, i)
                     \/ PyIndex(text, i) \in SentenceEnd}
    IN  IF stops = {} THEN -1
        ELSE CHOOSE i \in stops : \A j \in stops : j <= i

\* text[i] raises IndexError during the scan
ScanRaises(text, start, chunk_size) ==
    /\ start + chunk_size < Len(text)
    /\ ScanHit(text, start, chunk_size) # -1
    /\ ~PyIndexOk(text, ScanHit(text, start, chunk_size))

\* the end of the window that starts at start, after boundary snapping
ChunkEnd(text, start, chunk_size) ==
    LET end == start + chunk_size
    IN  IF end < Len(text) /\ ScanHit(text, start, chunk_size) # -1
        THEN ScanHit(text, start, chunk_size) + 1
        ELSE end

\* chunks after the iteration's append
ChunkAppend(chunks, text, start, end) ==
    LET chunk == PyStrip(PySlice(text, start, end))
    IN  IF chunk # <<>> THEN Append(chunks, chunk) ELSE chunks

\* start after the iteration
NextStart(end, overlap) == end - overlap

\* the while loop, run to its end
RECURSIVE ChunkLoop(_, _, _, _, _)
ChunkLoop(text, chunk_size, overlap, start, chunks) ==
    IF ~(start < Len(text)) THEN chunks
    ELSE LET end == ChunkEnd(text, start, chunk_size)
             out == ChunkAppend(chunks, text, start, end)
         IN  IF NextStart(end, overlap) >= Len(text) THEN out
             ELSE ChunkLoop(text, chunk_size, overlap, NextStart(end, overlap), out)

chunk_text(text, chunk_size, overlap) ==
    IF Len(text) <= chunk_size THEN <<text>>
    ELSE ChunkLoop(text, chunk_size, overlap, 0, <<>>)

---------------------------------------------------------------------------
(* Inputs of the store model.                                              *)

B_cat == <<"c","a","t"," ","d","o","g">>
B_hi  == <<"H","i",".">>
B_empty == <<>>
BadByte == "\\xff"
B_bad == <<BadByte>>

Contents == {B_cat, B_hi, B_empty, B_bad}

F_txt == <<"a",".","t","x","t">>
F_pdf == <<"b",".","P","D","F">>
F_exe == <<"x",".","e","x","e">>

Filenames == {F_txt, F_pdf, F_exe}

\* the uploads the store model is given: two texts under one name, a file
\* without text and one of an unsupported type
Uploads ==
    {<<B_cat, F_txt>>, <<B_hi, F_txt>>, <<B_empty, F_txt>>, <<B_cat, F_exe>>}

ChatIds == {"c1", "c2"}
\* the chat_id arguments of the sequential store model: a chat, or none given
ChatArgs == {"c1", None}

\* `if chat_id:`
Truthy(chat_id) == chat_id # None /\ chat_id # ""

\* hashlib.md5(file_content).hexdigest()[:10]
MD5_10(content) ==
    CASE content = B_empty -> "d41d8cd98f"
      [] content = B_cat   -> "b89526a82f"
      [] content = B_hi    -> "7b00b6d52a"
      [] OTHER             -> "8d39dd7eef"

---------------------------------------------------------------------------
(* Storage: save_file, _save_local and the deletion in delete_document.    *)

\* documents_dir / f"{file_hash}_{filename}": the hash has a fixed width, so
\* the pair determines the path and the path the pair
LocalPath(content, filename) == <<MD5_10(content), filename>>

\* what CloudinaryService.upload_file returns: an opaque reference
CloudinaryUpload(content, filename, chat_id) ==
    [storage_type |-> "cloudinary",
     file_path |-> <<"cloud", chat_id, MD5_10(content), filename>>]

\* the metadata _save_local returns (the fields the class reads later)
SaveLocalMeta(content, filename) ==
    [storage_type |-> "local", file_path |-> LocalPath(content, filename)]

\* save_file's return value
SaveFileMeta(cloud, content, filename, chat_id) ==
    IF cloud THEN CloudinaryUpload(content, filename, chat_id)
    ELSE SaveLocalMeta(content, filename)

\* the files on disk after save_file
FilesAfterSave(cloud, fs, content, filename) ==
    IF cloud THEN fs ELSE fs \cup {LocalPath(content, filename)}

\* how the byte deletion of delete_document ends: "True", "False" or "raised".
\* io is what the collaborator does: "ok", "fail" (it reports failure) or
\* "raise" (CloudinaryService.delete_file or os.remove raises)
StorageDelete(fs, file_metadata, io) ==
    IF file_metadata.storage_type = "cloudinary"
    THEN CASE io = "ok"   -> "True"
           [] io = "fail" -> "False"
           [] OTHER       -> "raised"
    ELSE IF file_metadata.storage_type = "local"
         THEN IF file_metadata.file_path \in fs
              THEN (IF io = "raise" THEN "raised" ELSE "True")
              ELSE "False"
         ELSE "False"

\* the files on disk after the byte deletion
FilesAfterDelete(fs, file_metadata, io) ==
    IF /\ file_metadata.storage_type = "local"
       /\ StorageDelete(fs, file_metadata, io) = "True"
    THEN fs \ {file_metadata.file_path}
    ELSE fs

\* the outcomes the collaborator can produce for this deletion
DeleteOutcomes(fs, file_metadata) ==
    IF file_metadata.storage_type = "cloudinary" THEN {"ok", "fail", "raise"}
    ELSE IF file_metadata.file_path \in fs THEN {"ok", "raise"} ELSE {"ok"}

---------------------------------------------------------------------------
(* Text extraction.                                                        *)

\* bytes.decode('utf-8') inside extract_text_from_txt: "" when it raises
extract_text_from_txt(content) ==
    IF \E i \in 1..Len(content) : content[i] = BadByte THEN <<>> ELSE content

\* PyPDF2 reads the pages' text, stripped; "" when the library raises
extract_text_from_pdf(content, lib) ==
    IF lib = "fail" THEN <<>> ELSE PyStrip(extract_text_from_txt(content))

\* mammoth's raw text; "" when the library raises
extract_text_from_docx(content, lib) ==
    IF lib = "fail" THEN <<>> ELSE extract_text_from_txt(content)

Ext_pdf  == <<".","p","d","f">>
Ext_docx == <<".","d","o","c","x">>
Ext_txt  == <<".","t","x","t">>
Ext_md   == <<".","m","d">>

\* extract_text: the text, or raised (ValueError: unsupported file type)
extract_text(content, filename, lib) ==
    LET extension == Suffix(filename)
    IN  IF extension = Ext_pdf
        THEN [raised |-> FALSE, text |-> extract_text_from_pdf(content, lib)]
        ELSE IF extension = Ext_docx
        THEN [raised |-> FALSE, text |-> extract_text_from_docx(content, lib)]
        ELSE IF extension \in {Ext_txt, Ext_md}
        THEN [raised |-> FALSE, text |-> extract_text_from_txt(content)]
        ELSE [raised |-> TRUE, text |-> <<>>]

\* what the external library can do with this file
LibOutcomes(filename) ==
    IF Suffix(filename) \in {Ext_pdf, Ext_docx} THEN {"ok", "fail"} ELSE {"ok"}

---------------------------------------------------------------------------
(* The chat store (a dict of insertion-ordered dicts) and the registry.    *)

\* position of key in an ordered dict, 0 when absent
DictPos(d, key) ==
    IF \E i \in 1..Len(d) : d[i].file_id = key
    THEN CHOOSE i \in 1..Len(d) : d[i].file_id = key
    ELSE 0

\* d[key] = rec: an existing key keeps its place
DictSet(d, rec) ==
    IF DictPos(d, rec.file_id) = 0 THEN Append(d, rec)
    ELSE [d EXCEPT ![DictPos(d, rec.file_id)] = rec]

\* a sequence without its i-th element
RemoveAt(s, i) == SubSeq(s, 1, i - 1) \o SubSeq(s, i + 1, Len(s))

\* SelectSeq with a test on the element
RECURSIVE Filter(_, _, _)
Filter(s, filename, chat_id) ==
    IF s = <<>> THEN <<>>
    ELSE IF Head(s).filename = filename /\ Head(s).chat_id = chat_id
         THEN Filter(Tail(s), filename, chat_id)
         ELSE <<Head(s)>> \o Filter(Tail(s), filename, chat_id)

\* self.chat_documents[chat_id][file_id] = {...}
ChatStoreInsert(cd, chat_id, rec) ==
    [c \in (DOMAIN cd) \cup {chat_id} |->
        IF c = chat_id
        THEN DictSet(IF chat_id \in DOMAIN cd THEN cd[chat_id] ELSE <<>>, rec)
        ELSE cd[c]]

\* the record stored under chat_documents[chat_id][file_id]
DocRecord(file_id, filename, chunks, text, file_metadata) ==
    [file_id |-> file_id, filename |-> filename, chunks |-> chunks,
     full_text |-> text, file_metadata |-> file_metadata]

\* the summary appended to documents_metadata
MetaEntry(file_id, filename, file_metadata, chunks, chat_id) ==
    [id |-> file_id, filename |-> filename, file_metadata |-> file_metadata,
     chunks |-> Len(chunks), chat_id |-> chat_id]

\* FindEntry with the chat_id test forgotten
FindEntryAnyChat(meta, filename, chat_id) ==
    LET hits == {i \in 1..Len(meta) : meta[i].filename = filename}
    IN  IF hits = {} THEN 0 ELSE CHOOSE i \in hits : \A j \in hits : i <= j

\* delete_document's lookup: the index of the first registry entry with this
\* filename and chat_id, 0 when there is none
FindEntry(meta, filename, chat_id) ==
    LET hits == {i \in 1..Len(meta) :
                    meta[i].filename = filename /\ meta[i].chat_id = chat_id}
    IN  IF hits = {} THEN 0 ELSE CHOOSE i \in hits : \A j \in hits : i <= j

\* delete_document's "Remove from memory": the first record of the chat, in
\* insertion order, whose filename matches
ChatStoreRemove(cd, filename, chat_id) ==
    IF Truthy(chat_id) /\ chat_id \in DOMAIN cd
    THEN LET d == cd[chat_id]
             hits == {i \in 1..Len(d) : d[i].filename = filename}
         IN  IF hits = {} THEN cd
             ELSE [cd EXCEPT ![chat_id] =
                      RemoveAt(d, CHOOSE i \in hits : \A j \in hits : i <= j)]
    ELSE cd

\* delete_document's "Remove from metadata"
RegistryRemove(meta, filename, chat_id) == Filter(meta, filename, chat_id)

---------------------------------------------------------------------------
(* The frames the store model does not use keep a fixed value.             *)

IdleConc == procs = <<>> /\ live = <<>>
IdleChunk ==
    /\ c_text = <<>> /\ c_size = 0 /\ c_overlap = 0
    /\ c_start = 0 /\ c_chunks = <<>> /\ c_pc = "idle"
IdleQuery == q_query = <<>> /\ q_chunk = <<>> /\ q_result = 0 /\ q_pc = "idle"

\* the state __init__ leaves
InitStore ==
    /\ use_cloudinary \in BOOLEAN
    /\ files = {}
    /\ chat_documents = <<>>
    /\ documents_metadata = <<>>
    /\ last = [op |-> "__init__", outcome |-> "ok"]

---------------------------------------------------------------------------
(* process_document.                                                       *)

\* ProcessOutcome without the `if not text` test
ProcessOutcomeNoTextTest(content, filename, io, lib) ==
    IF io = "raise" THEN "save_raised"
    ELSE IF extract_text(content, filename, lib).raised THEN "unsupported"
    ELSE "ok"

\* how the try block ends: which statement raises, or "ok".  io is what the
\* storage collaborator does in save_file ("ok" or "raise"), lib what the
\* extraction library does ("ok" or "fail")
ProcessOutcome(content, filename, io, lib) ==
    IF io = "raise" THEN "save_raised"
    ELSE IF extract_text(content, filename, lib).raised THEN "unsupported"
    ELSE IF extract_text(content, filename, lib).text = <<>> THEN "no_text"
    ELSE "ok"

\* the steps the call takes before it returns or raises
ProcessSteps(content, filename, chat_id, io, lib) ==
    LET out == ProcessOutcome(content, filename, io, lib)
    IN  CASE out = "save_raised" -> <<"save_file">>
          [] out \in {"unsupported", "no_text"} -> <<"save_file", "extract_text">>
          [] OTHER ->
               <<"save_file", "extract_text", "chunk_text">>
               \o (IF Truthy(chat_id) THEN <<"chat_documents">> ELSE <<>>)
               \o <<"documents_metadata">>

process_document(content, filename, chat_id, io, lib) ==
    LET out == ProcessOutcome(content, filename, io, lib)
        file_metadata == SaveFileMeta(use_cloudinary, content, filename, chat_id)
        text == extract_text(content, filename, lib).text
        chunks == chunk_text(text, DefaultChunkSize, DefaultOverlap)
        file_id == MD5_10(content)
    IN  /\ out = "ok" => Len(documents_metadata) < MaxDocs
        /\ files' = IF out = "save_raised" THEN files
                    ELSE FilesAfterSave(use_cloudinary, files, content, filename)
        /\ chat_documents' =
               IF out = "ok" /\ Truthy(chat_id)
               THEN ChatStoreInsert(chat_documents, chat_id,
                        DocRecord(file_id, filename, chunks, text, file_metadata))
               ELSE chat_documents
        /\ documents_metadata' =
               IF out = "ok"
               THEN Append(documents_metadata,
                        MetaEntry(file_id, filename, file_metadata, chunks, chat_id))
               ELSE documents_metadata
        /\ last' = [op |-> "process_document",
                    args |-> [content |-> content, filename |-> filename,
                              chat_id |-> chat_id, io |-> io, lib |-> lib],
                    steps |-> ProcessSteps(content, filename, chat_id, io, lib),
                    outcome |-> out]
        /\ UNCHANGED use_cloudinary

---------------------------------------------------------------------------
(* delete_document.                                                        *)

\* the file_metadata the lookup loop ends with, when an entry matches
FoundMetadata(meta, filename, chat_id) ==
    meta[FindEntry(meta, filename, chat_id)].file_metadata

\* which return the call takes: "not_found", "storage_raised" (the except
\* branch), "storage_failed" or "deleted"
DeleteOutcome(fs, meta, filename, chat_id, io) ==
    IF FindEntry(meta, filename, chat_id) = 0 THEN "not_found"
    ELSE LET success == StorageDelete(fs, FoundMetadata(meta, filename, chat_id), io)
         IN  CASE success = "raised" -> "storage_raised"
               [] success = "False"  -> "storage_failed"
               [] OTHER              -> "deleted"

\* the value delete_document returns
DeleteResult(out) == IF out = "deleted" THEN "True" ELSE "False"

delete_document(filename, chat_id, io) ==
    LET out == DeleteOutcome(files, documents_metadata, filename, chat_id, io)
        file_metadata == FoundMetadata(documents_metadata, filename, chat_id)
        reconciled == out \in {"storage_failed", "deleted"}
    IN  /\ out # "not_found" => io \in DeleteOutcomes(files, file_metadata)
        /\ out = "not_found" => io = "ok"
        /\ files' = IF out = "not_found" THEN files
                    ELSE FilesAfterDelete(files, file_metadata, io)
        /\ chat_documents' =
               IF reconciled THEN ChatStoreRemove(chat_documents, filename, chat_id)
               ELSE chat_documents
        /\ documents_metadata' =
               IF reconciled THEN RegistryRemove(documents_metadata, filename, chat_id)
               ELSE documents_metadata
        /\ last' = [op |-> "delete_document",
                    args |-> [filename |-> filename, chat_id |-> chat_id, io |-> io],
                    outcome |-> out,
                    result |-> DeleteResult(out)]
        /\ UNCHANGED use_cloudinary

---------------------------------------------------------------------------
(* The sequential store: any sequence of ingest and delete calls.          *)

Ingest ==
    \E up \in Uploads, chat_id \in ChatArgs, io \in {"ok", "raise"} :
        \E lib \in LibOutcomes(up[2]) :
            process_document(up[1], up[2], chat_id, io, lib)

Delete ==
    \E filename \in {F_txt, F_exe}, chat_id \in ChatArgs,
       io \in {"ok", "fail", "raise"} :
        delete_document(filename, chat_id, io)

InitSeq == InitStore /\ IdleConc /\ IdleChunk /\ IdleQuery

NextStore ==
    \/ Ingest /\ UNCHANGED <<concVars, chunkVars, queryVars>>
    \/ Delete /\ UNCHANGED <<concVars, chunkVars, queryVars>>

SpecStore == InitSeq /\ [][NextStore]_vars

---------------------------------------------------------------------------
(* Claims about the sequential store.                                      *)

\* the registry holds an entry with this filename and chat_id
HasEntry(meta, filename, chat_id) ==
    \E i \in 1..Len(meta) : meta[i].filename = filename /\ meta[i].chat_id = chat_id

\* the records stored under a chat, <<>> for a chat the store does not know
ChatRecords(cd, chat_id) == IF chat_id \in DOMAIN cd THEN cd[chat_id] ELSE <<>>

\* C1: in every reachable state, for every chat id c, each record stored under
\* c has exactly one registry entry with its id and chat_id c, and every
\* registry entry with chat_id c has a record stored under c.
C1_RegistryMirrorsChatStore ==
    \A c \in ChatIds :
        /\ \A k \in 1..Len(ChatRecords(chat_documents, c)) :
               Cardinality({i \in 1..Len(documents_metadata) :
                   /\ documents_metadata[i].id = ChatRecords(chat_documents, c)[k].file_id
                   /\ documents_metadata[i].chat_id = c}) = 1
        /\ \A i \in 1..Len(documents_metadata) :
               documents_metadata[i].chat_id = c =>
                   \E k \in 1..Len(ChatRecords(chat_documents, c)) :
                       ChatRecords(chat_documents, c)[k].file_id = documents_metadata[i].id

\* C2: a delete_document call for a (filename, chat_id) that has no registry
\* entry returns False and changes neither the registry, nor the chat store,
\* nor the stored bytes.
C2_DeleteUnknownHasNoEffect ==
    [][(/\ last'.op = "delete_document"
        /\ ~HasEntry(documents_metadata, last'.args.filename, last'.args.chat_id))
       => (/\ last'.result = "False"
           /\ documents_metadata' = documents_metadata
           /\ chat_documents' = chat_documents
           /\ files' = files)]_vars

\* C2's case: the call found nothing although the registry holds the same
\* filename for another chat_id
C2_Witness ==
    /\ last.op = "delete_document"
    /\ last.outcome = "not_found"
    /\ \E i \in 1..Len(documents_metadata) :
           /\ documents_metadata[i].filename = last.args.filename
           /\ documents_metadata[i].chat_id # last.args.chat_id

\* C3: a delete_document call that finds a registry entry returns True exactly
\* when the byte deletion succeeds, returns False when it fails (it reports
\* failure, the file is missing, or it raises), and in both cases has removed
\* the entry from the registry and the record from the chat store.
C3_DeleteReconcilesWhateverStorageDoes ==
    [][(/\ last'.op = "delete_document"
        /\ HasEntry(documents_metadata, last'.args.filename, last'.args.chat_id))
       => (/\ last'.result = (IF last'.outcome = "deleted" THEN "True" ELSE "False")
           /\ ~HasEntry(documents_metadata', last'.args.filename, last'.args.chat_id)
           /\ Len(documents_metadata') < Len(documents_metadata)
           /\ (\E k \in 1..Len(ChatRecords(chat_documents, last'.args.chat_id)) :
                  ChatRecords(chat_documents, last'.args.chat_id)[k].filename
                      = last'.args.filename)
              => Len(ChatRecords(chat_documents', last'.args.chat_id))
                     < Len(ChatRecords(chat_documents, last'.args.chat_id)))]_vars

SupportedExtensions == {Ext_pdf, Ext_docx, Ext_txt, Ext_md}

\* the call is one that fails: storage error while saving, unsupported
\* extension, or no text extracted
IngestFails(args) ==
    \/ args.io = "raise"
    \/ Suffix(args.filename) \notin SupportedExtensions
    \/ extract_text(args.content, args.filename, args.lib).text = <<>>

\* C4: a process_document call that fails (storage error while saving,
\* unsupported extension, empty extracted text) raises and leaves the chat
\* store and the registry as they were; no other call raises.
C4_FailedIngestChangesNothing ==
    [][last'.op = "process_document"
       => /\ IngestFails(last'.args) <=> last'.outcome # "ok"
          /\ IngestFails(last'.args)
             => (/\ chat_documents' = chat_documents
                 /\ documents_metadata' = documents_metadata)]_vars

\* C4's case: an ingest failed for want of text while the chat held a document
C4_Witness ==
    /\ last.op = "process_document"
    /\ last.outcome = "no_text"
    /\ last.args.chat_id = "c1"
    /\ Len(ChatRecords(chat_documents, "c1")) > 0
    /\ Len(documents_metadata) > 0

\* C5: a process_document call with an unsupported extension raises before any
\* storage write and before any chunking: its steps hold neither save_file nor
\* chunk_text, and no file is written.
C5_UnsupportedRaisedBeforeStorage ==
    [][(/\ last'.op = "process_document"
        /\ Suffix(last'.args.filename) \notin SupportedExtensions)
       => (/\ \A k \in 1..Len(last'.steps) :
                  last'.steps[k] \notin {"save_file", "chunk_text"}
           /\ files' = files)]_vars

---------------------------------------------------------------------------
(* chunk_text, one loop iteration per step.                                *)

ChunkAlphabet == {"a", ".", " "}

\* the texts of at most n characters
RECURSIVE TextsUpTo(_, _)
TextsUpTo(alphabet, n) ==
    IF n = 0 THEN {<<>>}
    ELSE LET shorter == TextsUpTo(alphabet, n - 1)
         IN  shorter \cup {Append(t, ch) : t \in shorter, ch \in alphabet}

\* a call chunk_text(text, chunk_size, overlap) with 0 <= overlap < chunk_size
InitChunkCall ==
    /\ c_text \in TextsUpTo(ChunkAlphabet, MaxTextLen)
    /\ c_size \in 1..MaxChunkSize
    /\ c_overlap \in 0..(c_size - 1)
    /\ c_start = 0
    /\ c_chunks = <<>>
    /\ c_pc = "call"

\* `if len(text) <= chunk_size: return [text]`
ChunkReturnWhole ==
    /\ c_pc = "call"
    /\ Len(c_text) <= c_size
    /\ c_chunks' = <<c_text>>
    /\ c_pc' = "done"
    /\ UNCHANGED <<c_text, c_size, c_overlap, c_start>>

\* `chunks = []; start = 0` and the first test of the while condition
ChunkEnterLoop ==
    /\ c_pc = "call"
    /\ Len(c_text) > c_size
    /\ c_pc' = IF c_start < Len(c_text) THEN "loop" ELSE "done"
    /\ UNCHANGED <<c_text, c_size, c_overlap, c_start, c_chunks>>

\* one iteration of the while loop, up to the next test of its condition
ChunkIterate ==
    /\ c_pc = "loop"
    /\ Len(c_chunks) < MaxChunks
    /\ IF ScanRaises(c_text, c_start, c_size)
       THEN /\ c_pc' = "raised"
            /\ UNCHANGED <<c_start, c_chunks>>
       ELSE LET end == ChunkEnd(c_text, c_start, c_size)
            IN  /\ c_chunks' = ChunkAppend(c_chunks, c_text, c_start, end)
                /\ c_start' = NextStart(end, c_overlap)
                /\ c_pc' = IF NextStart(end, c_overlap) >= Len(c_text)
                           THEN "done" ELSE "loop"
    /\ UNCHANGED <<c_text, c_size, c_overlap>>

InitChunk ==
    /\ InitChunkCall
    /\ use_cloudinary = FALSE /\ files = {} /\ chat_documents = <<>>
    /\ documents_metadata = <<>> /\ last = [op |-> "__init__", outcome |-> "ok"]
    /\ IdleConc /\ IdleQuery

NextChunk ==
    \/ ChunkReturnWhole /\ UNCHANGED <<storeVars, concVars, queryVars>>
    \/ ChunkEnterLoop /\ UNCHANGED <<storeVars, concVars, queryVars>>
    \/ ChunkIterate /\ UNCHANGED <<storeVars, concVars, queryVars>>

SpecChunk == InitChunk /\ [][NextChunk]_vars

\* C6: chunk_text terminates for 0 <= overlap < chunk_size: every iteration of
\* the loop leaves start strictly greater than it found it.
C6_StartStrictlyIncreases ==
    [][(c_pc = "loop" /\ c_pc' \in {"loop", "done"}) => c_start' > c_start]_vars

---------------------------------------------------------------------------
(* Interleaved callers: the calls on one chat run one after the other, the *)
(* calls on different chats interleave at each read and write of the       *)
(* shared chat store and registry.                                         *)

\* the uploads the callers make
ConcUploads == {<<B_cat, F_txt>>, <<B_empty, F_txt>>}

NoMeta == [storage_type |-> "none", file_path |-> <<>>]

\* a caller between two calls, having made n of them
Between(n) ==
    [pc |-> "idle", ops |-> n, content |-> <<>>, filename |-> <<>>,
     file_metadata |-> NoMeta, success |-> "None", snapshot |-> <<>>]

InitConc ==
    /\ InitStore
    /\ procs = [c \in ChatIds |-> Between(0)]
    /\ live = [c \in ChatIds |-> <<>>]
    /\ IdleChunk /\ IdleQuery

\* the caller returns (or the call raises): its frame is dropped
Return(c) == procs' = [procs EXCEPT ![c] = Between(procs[c].ops + 1)]

\* process_document, line 199: save_file
P_Save(c) ==
    /\ procs[c].pc = "idle" /\ procs[c].ops < MaxOps
    /\ \E up \in ConcUploads, io \in {"ok", "raise"} :
          IF io = "raise"
          THEN Return(c) /\ UNCHANGED files
          ELSE /\ files' = FilesAfterSave(use_cloudinary, files, up[1], up[2])
               /\ procs' = [procs EXCEPT ![c] =
                      [@ EXCEPT !.pc = "p_extract", !.content = up[1], !.filename = up[2],
                                !.file_metadata =
                                    SaveFileMeta(use_cloudinary, up[1], up[2], c)]]
    /\ UNCHANGED <<use_cloudinary, chat_documents, documents_metadata, last, live>>

\* process_document, lines 202-208: extract_text, the text test, chunk_text
P_Extract(c) ==
    /\ procs[c].pc = "p_extract"
    /\ IF ProcessOutcome(procs[c].content, procs[c].filename, "ok", "ok") = "ok"
       THEN procs' = [procs EXCEPT ![c].pc = "p_store"]
       ELSE Return(c)
    /\ UNCHANGED <<storeVars, live>>

\* process_document, lines 211-221: the write to chat_documents
P_Store(c) ==
    /\ procs[c].pc = "p_store"
    /\ LET text == extract_text(procs[c].content, procs[c].filename, "ok").text
       IN  chat_documents' =
               IF Truthy(c)
               THEN ChatStoreInsert(chat_documents, c,
                        DocRecord(MD5_10(procs[c].content), procs[c].filename,
                                  chunk_text(text, DefaultChunkSize, DefaultOverlap),
                                  text, procs[c].file_metadata))
               ELSE chat_documents
    /\ procs' = [procs EXCEPT ![c].pc = "p_append"]
    /\ UNCHANGED <<use_cloudinary, files, documents_metadata, last, live>>

\* process_document, lines 224-231: documents_metadata.append, and the return
P_Append(c) ==
    /\ procs[c].pc = "p_append"
    /\ LET text == extract_text(procs[c].content, procs[c].filename, "ok").text
           entry == MetaEntry(MD5_10(procs[c].content), procs[c].filename,
                              procs[c].file_metadata,
                              chunk_text(text, DefaultChunkSize, DefaultOverlap), c)
       IN  /\ documents_metadata' = Append(documents_metadata, entry)
           /\ live' = [live EXCEPT ![c] = Append(@, entry)]
    /\ Return(c)
    /\ UNCHANGED <<use_cloudinary, files, chat_documents, last>>

\* delete_document, lines 452-460: the lookup in documents_metadata
D_Find(c) ==
    /\ procs[c].pc = "idle" /\ procs[c].ops < MaxOps
    /\ \E filename \in {F_txt} :
          IF FindEntry(documents_metadata, filename, c) = 0
          THEN Return(c)
          ELSE procs' = [procs EXCEPT ![c] =
                   [@ EXCEPT !.pc = "d_storage", !.filename = filename,
                             !.file_metadata =
                                 FoundMetadata(documents_metadata, filename, c)]]
    /\ UNCHANGED <<storeVars, live>>

\* delete_document, lines 462-473: the byte deletion; a raise goes to the
\* except branch, which returns False
D_Storage(c) ==
    /\ procs[c].pc = "d_storage"
    /\ \E io \in DeleteOutcomes(files, procs[c].file_metadata) :
          LET success == StorageDelete(files, procs[c].file_metadata, io)
          IN  /\ files' = FilesAfterDelete(files, procs[c].file_metadata, io)
              /\ IF success = "raised" THEN Return(c)
                 ELSE procs' = [procs EXCEPT ![c] =
                          [@ EXCEPT !.pc = "d_memory", !.success = success]]
    /\ UNCHANGED <<use_cloudinary, chat_documents, documents_metadata, last, live>>

\* delete_document, lines 476-480: the removal from chat_documents
D_Memory(c) ==
    /\ procs[c].pc = "d_memory"
    /\ chat_documents' = ChatStoreRemove(chat_documents, procs[c].filename, c)
    /\ procs' = [procs EXCEPT ![c].pc = "d_read"]
    /\ UNCHANGED <<use_cloudinary, files, documents_metadata, last, live>>

\* delete_document, lines 483-486: the list comprehension reads the registry
D_Read(c) ==
    /\ procs[c].pc = "d_read"
    /\ procs' = [procs EXCEPT ![c] =
           [@ EXCEPT !.pc = "d_write",
                     !.snapshot = RegistryRemove(documents_metadata, procs[c].filename, c)]]
    /\ UNCHANGED <<storeVars, live>>

\* delete_document, line 483: the new list is stored in self.documents_metadata,
\* and the call returns success
D_Write(c) ==
    /\ procs[c].pc = "d_write"
    /\ documents_metadata' = procs[c].snapshot
    /\ live' = [live EXCEPT ![c] = Filter(@, procs[c].filename, c)]
    /\ Return(c)
    /\ UNCHANGED <<use_cloudinary, files, chat_documents, last>>

NextConc ==
    \/ \E c \in ChatIds : P_Save(c) /\ UNCHANGED <<chunkVars, queryVars>>
    \/ \E c \in ChatIds : P_Extract(c) /\ UNCHANGED <<chunkVars, queryVars>>
    \/ \E c \in ChatIds : P_Store(c) /\ UNCHANGED <<chunkVars, queryVars>>
    \/ \E c \in ChatIds : P_Append(c) /\ UNCHANGED <<chunkVars, queryVars>>
    \/ \E c \in ChatIds : D_Find(c) /\ UNCHANGED <<chunkVars, queryVars>>
    \/ \E c \in ChatIds : D_Storage(c) /\ UNCHANGED <<chunkVars, queryVars>>
    \/ \E c \in ChatIds : D_Memory(c) /\ UNCHANGED <<chunkVars, queryVars>>
    \/ \E c \in ChatIds : D_Read(c) /\ UNCHANGED <<chunkVars, queryVars>>
    \/ \E c \in ChatIds : D_Write(c) /\ UNCHANGED <<chunkVars, queryVars>>

SpecConc == InitConc /\ [][NextConc]_vars

\* the registry entries of one chat, in order
RECURSIVE EntriesOf(_, _)
EntriesOf(meta, chat_id) ==
    IF meta = <<>> THEN <<>>
    ELSE (IF Head(meta).chat_id = chat_id THEN <<Head(meta)>> ELSE <<>>)
         \o EntriesOf(Tail(meta), chat_id)

\* C7: with the calls on one chat serialized and the calls on different chats
\* interleaved, no update is lost: once every call has completed, the registry
\* holds, for each chat, exactly the entries ingested and not deleted since.
C7_NoLostUpdate ==
    (\A c \in ChatIds : procs[c].pc = "idle")
        => \A c \in ChatIds : EntriesOf(documents_metadata, c) = live[c]

---------------------------------------------------------------------------
(* should_trigger_web_search.                                              *)

\* self.search_triggers
search_triggers ==
    <<
      <<"l","a","t","e","s","t">>,
      <<"r","e","c","e","n","t">>,
      <<"c","u","r","r","e","n","t">>,
      <<"t","o","d","a","y">>,
      <<"n","o","w">>,
      <<"t","h","i","s"," ","w","e","e","k">>,
      <<"t","h","i","s"," ","m","o","n","t","h">>,
      <<"y","e","s","t","e","r","d","a","y">>,
      <<"b","r","e","a","k","i","n","g">>,
      <<"u","p","d","a","t","e">>,
      <<"n","e","w","s">>,
      <<"n","e","w">>,
      <<"f","r","e","s","h">>,
      <<"l","i","v","e">>,
      <<"w","e","a","t","h","e","r">>,
      <<"t","e","m","p","e","r","a","t","u","r","e">>,
      <<"f","o","r","e","c","a","s","t">>,
      <<"c","l","i","m","a","t","e">>,
      <<"r","a","i","n">>,
      <<"s","u","n","n","y">>,
      <<"c","l","o","u","d","y">>,
      <<"h","u","m","i","d","i","t","y">>,
      <<"w","i","n","d">>,
      <<"s","t","o","r","m">>,
      <<"h","o","t">>,
      <<"c","o","l","d">>,
      <<"d","e","g","r","e","e","s">>,
      <<"s","t","o","c","k"," ","p","r","i","c","e">>,
      <<"e","x","c","h","a","n","g","e"," ","r","a","t","e">>,
      <<"c","r","y","p","t","o","c","u","r","r","e","n","c","y">>,
      <<"b","i","t","c","o","i","n">>,
      <<"p","r","i","c","e">>,
      <<"m","a","r","k","e","t">>,
      <<"c","o","s","t">>,
      <<"t","r","e","n","d","i","n","g">>,
      <<"v","i","r","a","l">>,
      <<"p","o","p","u","l","a","r">>,
      <<"h","a","p","p","e","n","i","n","g">>,
      <<"e","v","e","n","t","s">>,
      <<"b","r","e","a","k","i","n","g"," ","n","e","w","s">>,
      <<"w","h","a","t"," ","i","s"," ","t","h","e"," ","c","u","r","r","e","n","t">>,
      <<"h","o","w"," ","m","u","c","h"," ","d","o","e","s">>,
      <<"w","h","e","n"," ","d","i","d">>,
      <<"w","h","o"," ","i","s"," ","c","u","r","r","e","n","t","l","y">>,
      <<"w","h","e","r","e"," ","i","s"," ","n","o","w">>,
      <<"w","h","a","t"," ","h","a","p","p","e","n","e","d"," ","t","o","d","a","y">>,
      <<"t","e","l","l"," ","m","e"," ","t","h","e"," ","c","u","r","r","e","n","t">>
    >>

\* self.no_search_keywords
no_search_keywords ==
    <<
      <<"d","o","c","u","m","e","n","t">>,
      <<"f","i","l","e">>,
      <<"u","p","l","o","a","d">>,
      <<"a","n","a","l","y","z","e"," ","t","h","i","s">>,
      <<"s","u","m","m","a","r","i","z","e"," ","t","h","i","s">>,
      <<"f","r","o","m"," ","t","h","e"," ","d","o","c","u","m","e","n","t">>,
      <<"i","n"," ","t","h","e"," ","p","d","f">>,
      <<"a","c","c","o","r","d","i","n","g"," ","t","o"," ","t","h","e"," ","f","i","l","e">>
    >>

\* weather_patterns: each regular expression as its literal pieces, which `.*` separates
weather_patterns ==
    <<
      <<<<"w","e","a","t","h","e","r">>, <<"i","n">>>>,
      <<<<"t","e","m","p","e","r","a","t","u","r","e">>, <<"i","n">>>>,
      <<<<"h","o","w">>, <<"h","o","t">>, <<"t","o","d","a","y">>>>,
      <<<<"h","o","w">>, <<"c","o","l","d">>, <<"t","o","d","a","y">>>>,
      <<<<"r","a","i","n">>, <<"t","o","d","a","y">>>>,
      <<<<"f","o","r","e","c","a","s","t">>, <<"f","o","r">>>>,
      <<<<"c","l","i","m","a","t","e">>, <<"i","n">>>>
    >>

\* question_patterns, in the same form
question_patterns ==
    <<
      <<<<"w","h","a","t">>, <<"i","s">>, <<"p","r","i","c","e">>>>,
      <<<<"h","o","w">>, <<"m","u","c","h">>, <<"c","o","s","t">>>>,
      <<<<"w","h","e","n">>, <<"d","i","d">>, <<"h","a","p","p","e","n">>>>,
      <<<<"w","h","o">>, <<"i","s">>, <<"c","u","r","r","e","n","t","l","y">>>>,
      <<<<"w","h","e","r","e">>, <<"i","s">>, <<"n","o","w">>>>,
      <<<<"w","h","a","t">>, <<"h","a","p","p","e","n","e","d">>, <<"t","o","d","a","y">>>>,
      <<<<"l","a","t","e","s","t">>, <<"o","n">>>>,
      <<<<"c","u","r","r","e","n","t">>, <<"w","e","a","t","h","e","r">>>>,
      <<<<"t","e","l","l">>, <<"m","e">>, <<"c","u","r","r","e","n","t">>>>,
      <<<<"w","h","a","t">>, <<"i","s">>, <<"t","h","e">>, <<"c","u","r","r","e","n","t">>>>
    >>

\* the words of the direct weather test
weather_words ==
    <<
      <<"w","e","a","t","h","e","r">>,
      <<"t","e","m","p","e","r","a","t","u","r","e">>,
      <<"f","o","r","e","c","a","s","t">>,
      <<"c","l","i","m","a","t","e">>
    >>

\* some keyword of the list is a substring of s
AnyIn(keywords, s) == \E k \in 1..Len(keywords) : PyIn(keywords[k], s)

\* the pieces from the k-th on match in order from position pos, no newline
\* in a gap: `.` does not match "\n"
RECURSIVE MatchRest(_, _, _, _)
MatchRest(pieces, k, s, pos) ==
    IF k > Len(pieces) THEN TRUE
    ELSE \E p \in pos..(Len(s) + 1) :
            /\ StartsAt(s, pieces[k], p)
            /\ \A j \in pos..(p - 1) : s[j] # "\n"
            /\ MatchRest(pieces, k + 1, s, p + Len(pieces[k]))

\* re.search(pattern, s) for a pattern of literal pieces separated by `.*`
RegexSearch(pieces, s) ==
    \E p \in 1..(Len(s) + 1) :
        /\ StartsAt(s, pieces[1], p)
        /\ MatchRest(pieces, 2, s, p + Len(pieces[1]))

\* some pattern of the list is found in s
AnySearch(patterns, s) == \E k \in 1..Len(patterns) : RegexSearch(patterns[k], s)

\* ClassifyRule with the trigger keywords tested before the document keywords
ClassifyRuleTriggersFirst(query_lower) ==
    IF AnyIn(search_triggers, query_lower) THEN "trigger"
    ELSE IF AnyIn(no_search_keywords, query_lower) THEN "no_search"
    ELSE IF AnySearch(weather_patterns, query_lower) THEN "weather_pattern"
    ELSE IF AnySearch(question_patterns, query_lower) THEN "question_pattern"
    ELSE IF AnyIn(weather_words, query_lower) THEN "weather_word"
    ELSE "none"

\* the return statement the function leaves by: the first test that succeeds
ClassifyRule(query_lower) ==
    IF AnyIn(no_search_keywords, query_lower) THEN "no_search"
    ELSE IF AnyIn(search_triggers, query_lower) THEN "trigger"
    ELSE IF AnySearch(weather_patterns, query_lower) THEN "weather_pattern"
    ELSE IF AnySearch(question_patterns, query_lower) THEN "question_pattern"
    ELSE IF AnyIn(weather_words, query_lower) THEN "weather_word"
    ELSE "none"

should_trigger_web_search(query) ==
    LET rule == ClassifyRule(PyLower(query))
    IN  [value |-> rule \notin {"no_search", "none"}, rule |-> rule]

\* the phrases the classified queries are made of
P_hello   == <<"h","e","l","l","o">>
P_weather == <<"W","e","a","t","h","e","r">>
P_thisdoc == <<"t","h","i","s"," ","D","o","c","u","m","e","n","t">>
P_when    == <<"w","h","e","n"," ","e","x","a","c","t","l","y">>
P_happen  == <<"d","i","d"," ","i","t"," ","h","a","p","p","e","n">>
P_pro     == <<"p","r","o">>
P_file    == <<"f","i","l","e">>
P_renewal == <<"r","e","n","e","w","a","l">>
P_inparis == <<"i","n"," ","P","a","r","i","s">>

Phrases == {P_hello, P_weather, P_thisdoc, P_when, P_happen, P_pro, P_file,
            P_renewal, P_inparis}

Separators == {<<>>, <<" ">>, <<"\n">>}

\* sep.join(words)
RECURSIVE Join(_, _)
Join(words, sep) ==
    IF words = <<>> THEN <<>>
    ELSE IF Len(words) = 1 THEN words[1]
    ELSE words[1] \o sep \o Join(Tail(words), sep)

\* the sequences of at most n phrases
RECURSIVE PhraseSeqs(_)
PhraseSeqs(n) ==
    IF n = 0 THEN {<<>>}
    ELSE LET shorter == PhraseSeqs(n - 1)
         IN  shorter \cup {Append(w, ph) : w \in shorter, ph \in Phrases}

Queries == {Join(w, sep) : w \in PhraseSeqs(MaxQueryWords), sep \in Separators}

InitClassify ==
    /\ q_query \in Queries
    /\ q_chunk = <<>>
    /\ q_result = 0
    /\ q_pc = "call"
    /\ use_cloudinary = FALSE /\ files = {} /\ chat_documents = <<>>
    /\ documents_metadata = <<>> /\ last = [op |-> "__init__", outcome |-> "ok"]
    /\ IdleConc /\ IdleChunk

Classify ==
    /\ q_pc = "call"
    /\ q_result' = should_trigger_web_search(q_query)
    /\ q_pc' = "done"
    /\ UNCHANGED <<q_query, q_chunk>>

NextClassify == Classify /\ UNCHANGED <<storeVars, concVars, chunkVars>>

SpecClassify == InitClassify /\ [][NextClassify]_vars

\* C9: should_trigger_web_search returns false for every query whose lower-cased
\* text contains a document-exclusion phrase, whatever else it contains; for
\* every other query it returns true exactly when a trigger keyword, a weather
\* pattern, a question pattern or a weather word matches; the empty query
\* gives false.
C9_ExclusionOverridesTriggers ==
    q_pc = "done" =>
        LET ql == PyLower(q_query)
            excluded == \E k \in 1..Len(no_search_keywords) : PyIn(no_search_keywords[k], ql)
            triggered ==
                \/ \E k \in 1..Len(search_triggers) : PyIn(search_triggers[k], ql)
                \/ \E k \in 1..Len(weather_patterns) : RegexSearch(weather_patterns[k], ql)
                \/ \E k \in 1..Len(question_patterns) : RegexSearch(question_patterns[k], ql)
                \/ \E k \in 1..Len(weather_words) : PyIn(weather_words[k], ql)
        IN  /\ excluded => q_result.value = FALSE
            /\ ~excluded => (q_result.value <=> triggered)
            /\ q_query = <<>> => q_result.value = FALSE

\* C9's case: a query with an exclusion phrase and a trigger keyword was
\* classified
C9_Witness ==
    /\ q_pc = "done"
    /\ AnyIn(no_search_keywords, PyLower(q_query))
    /\ AnyIn(search_triggers, PyLower(q_query))
    /\ q_result.rule = "no_search"

---------------------------------------------------------------------------
(* simple_search.                                                          *)

\* the query's words without their repetitions, in order of first occurrence
RECURSIVE Distinct(_)
Distinct(words) ==
    IF words = <<>> THEN <<>>
    ELSE LET rest == Distinct(SubSeq(words, 1, Len(words) - 1))
             w == words[Len(words)]
         IN  IF \E k \in 1..Len(rest) : rest[k] = w THEN rest ELSE Append(rest, w)

RECURSIVE SumMatches(_, _)
SumMatches(query_words, chunk_lower) ==
    IF query_words = <<>> THEN 0
    ELSE (IF PyIn(Head(query_words), chunk_lower) THEN 1 ELSE 0)
         + SumMatches(Tail(query_words), chunk_lower)

\* Score over the distinct words of the query only
ScoreDistinct(query_words, chunk_lower) ==
    SumMatches(Distinct(query_words), chunk_lower)

\* sum(1 for word in query_words if word in chunk_lower)
Score(query_words, chunk_lower) == SumMatches(query_words, chunk_lower)

\* the score simple_search gives a chunk for a query
ChunkScore(query, chunk) == Score(PySplit(PyLower(query)), PyLower(chunk))

\* the chunks of one document that score above 0, in order
RECURSIVE RelevantOfDoc(_, _, _)
RelevantOfDoc(query_words, doc, k) ==
    IF k > Len(doc.chunks) THEN <<>>
    ELSE LET score == Score(query_words, PyLower(doc.chunks[k]))
         IN  (IF score > 0
              THEN <<[chunk |-> doc.chunks[k], score |-> score,
                      filename |-> doc.filename]>>
              ELSE <<>>)
             \o RelevantOfDoc(query_words, doc, k + 1)

\* relevant_chunks: over the chat's documents in insertion order
RECURSIVE RelevantChunks(_, _)
RelevantChunks(query_words, docs) ==
    IF docs = <<>> THEN <<>>
    ELSE RelevantOfDoc(query_words, Head(docs), 1)
         \o RelevantChunks(query_words, Tail(docs))

\* list.sort(key=score, reverse=True): stable, so equal scores keep their order
RECURSIVE SortByScore(_)
SortByScore(items) ==
    IF items = <<>> THEN <<>>
    ELSE LET sorted == SortByScore(SubSeq(items, 1, Len(items) - 1))
             x == items[Len(items)]
             ahead == {i \in 1..Len(sorted) : sorted[i].score >= x.score}
             n == IF ahead = {} THEN 0 ELSE CHOOSE i \in ahead : \A j \in ahead : j <= i
         IN  SubSeq(sorted, 1, n) \o <<x>> \o SubSeq(sorted, n + 1, Len(sorted))

DigitChars == <<"0","1","2","3","4","5","6","7","8","9">>

\* str(i) for i >= 0
RECURSIVE PyStr(_)
PyStr(i) ==
    IF i < 10 THEN <<DigitChars[i + 1]>>
    ELSE PyStr(i \div 10) \o <<DigitChars[(i % 10) + 1]>>

\* the fixed pieces of the document prompt
T_DocRef == "[Document Reference "
T_SearchHead == "You have access to relevant information from uploaded documents. Use this knowledge naturally in your response.\n\nAvailable Context:\n"
T_UserQuery == "User Query: "
T_SearchTail == "\n\nPlease provide a comprehensive and helpful response:"

\* "\n\n".join(context_parts), the parts numbered from i
RECURSIVE ContextParts(_, _)
ContextParts(top_chunks, i) ==
    IF i > Len(top_chunks) THEN <<>>
    ELSE (IF i > 1 THEN <<"\n", "\n">> ELSE <<>>)
         \o <<T_DocRef>> \o PyStr(i) \o <<":", " ">> \o top_chunks[i].filename
         \o <<"]", "\n">> \o top_chunks[i].chunk
         \o ContextParts(top_chunks, i + 1)

simple_search(cd, query, chat_id, top_k) ==
    IF ~Truthy(chat_id) \/ chat_id \notin DOMAIN cd THEN query
    ELSE IF cd[chat_id] = <<>> THEN query
    ELSE LET query_words == PySplit(PyLower(query))
             relevant_chunks == SortByScore(RelevantChunks(query_words, cd[chat_id]))
             top_chunks == SubSeq(relevant_chunks, 1,
                               IF Len(relevant_chunks) < top_k
                               THEN Len(relevant_chunks) ELSE top_k)
         IN  IF top_chunks = <<>> THEN query
             ELSE <<T_SearchHead>> \o ContextParts(top_chunks, 1)
                  \o <<"\n", "\n", T_UserQuery>> \o query \o <<T_SearchTail>>

---------------------------------------------------------------------------
(* The score of one chunk for one query.                                   *)

ScoreAlphabet == {"a", "A", "b", " "}

InitScore ==
    /\ q_query \in TextsUpTo(ScoreAlphabet, MaxQueryLen)
    /\ q_chunk \in TextsUpTo(ScoreAlphabet, MaxChunkLen)
    /\ q_result = 0
    /\ q_pc = "call"
    /\ use_cloudinary = FALSE /\ files = {} /\ chat_documents = <<>>
    /\ documents_metadata = <<>> /\ last = [op |-> "__init__", outcome |-> "ok"]
    /\ IdleConc /\ IdleChunk

ScoreChunk ==
    /\ q_pc = "call"
    /\ q_result' = ChunkScore(q_query, q_chunk)
    /\ q_pc' = "done"
    /\ UNCHANGED <<q_query, q_chunk>>

NextScore == ScoreChunk /\ UNCHANGED <<storeVars, concVars, chunkVars>>

SpecScore == InitScore /\ [][NextScore]_vars

\* the positions of the query at which a whitespace-separated token starts
TokenStarts(query) ==
    {p \in 1..Len(query) :
        query[p] \notin Whitespace /\ (p = 1 \/ query[p - 1] \in Whitespace)}

\* the token that starts at p, lower-cased
TokenAt(query, p) ==
    LET e == CHOOSE i \in p..Len(query) :
                 /\ \A j \in p..i : query[j] \notin Whitespace
                 /\ (i = Len(query) \/ query[i + 1] \in Whitespace)
    IN  PyLower(SubSeq(query, p, e))

\* the tokens of the query, at their positions, that occur in the chunk
MatchingTokenStarts(query, chunk) ==
    {p \in TokenStarts(query) : PyIn(TokenAt(query, p), PyLower(chunk))}

\* C8 as stated: the score of a chunk is the number of distinct lower-cased
\* query tokens that occur in the lower-cased chunk, so a token repeated in the
\* query contributes at most 1.
C8_ScoreCountsDistinctTokens ==
    q_pc = "done" =>
        q_result = Cardinality({TokenAt(q_query, p) :
                                   p \in MatchingTokenStarts(q_query, q_chunk)})

\* C8 as amended: the score of a chunk is the number of lower-cased
\* whitespace-separated query tokens, each counted as often as the query holds
\* it, that occur as a substring of the lower-cased chunk.
C8_ScoreCountsTokenOccurrences ==
    q_pc = "done" =>
        q_result = Cardinality(MatchingTokenStarts(q_query, q_chunk))

\* C8's case: a token that the chunk holds is repeated in the query, and the
\* chunk was scored
C8_Witness ==
    /\ q_pc = "done"
    /\ \E p1, p2 \in MatchingTokenStarts(q_query, q_chunk) :
           p1 # p2 /\ TokenAt(q_query, p1) = TokenAt(q_query, p2)
    /\ q_result = 2

---------------------------------------------------------------------------
(* has_documents and combine_sources.                                      *)

has_documents(cd, meta, chat_id) ==
    IF ~Truthy(chat_id) THEN Len(meta) > 0
    ELSE chat_id \in DOMAIN cd /\ Len(cd[chat_id]) > 0

\* the fixed pieces of the combined prompt
T_CombinedHead == "You have access to multiple information sources. Use all available information to provide a comprehensive response.\n\n"
T_DocumentContext == "Document Context:\n"
T_WebInformation == "Current Web Information:\n"
T_CombinedTail == "\n\nNote: This response combines document analysis with real-time web data (Agent Response).\n\nPlease provide a comprehensive response using all available sources:"

\* the sources list built before the prompt
Sources(cd, meta, query, web_search_results, chat_id) ==
    (IF Truthy(chat_id) /\ has_documents(cd, meta, chat_id)
        /\ simple_search(cd, query, chat_id, TopK) # query
     THEN <<"Document Knowledge Base">> ELSE <<>>)
    \o (IF web_search_results # <<>> THEN <<"Current Web Information">> ELSE <<>>)

combine_sources(cd, meta, query, document_context, web_search_results, chat_id) ==
    IF Sources(cd, meta, query, web_search_results, chat_id) = <<>> THEN query
    ELSE <<T_CombinedHead>>
         \o (IF document_context # <<>> /\ document_context # query
             THEN <<T_DocumentContext>> \o document_context \o <<"\n", "\n">>
             ELSE <<>>)
         \o (IF web_search_results # <<>>
             THEN <<T_WebInformation>> \o web_search_results \o <<"\n", "\n">>
             ELSE <<>>)
         \o <<T_UserQuery>> \o query \o <<T_CombinedTail>>

---------------------------------------------------------------------------
(* Composing a prompt over the documents a chat holds.                     *)

Q_cat == <<"c", "a", "t">>
Q_none == <<"z">>
ComposeQueries == {Q_cat, Q_none, <<>>}
Ctx_other == <<"c", "t", "x">>
WebTexts == {<<>>, <<"w">>}
ComposeUploads == {<<B_cat, F_txt>>, <<B_hi, F_txt>>}

ComposeIngest ==
    \E up \in ComposeUploads, chat_id \in ChatIds :
        process_document(up[1], up[2], chat_id, "ok", "ok")

ComposeDelete ==
    \E chat_id \in ChatIds : delete_document(F_txt, chat_id, "ok")

Combine ==
    \E query \in ComposeQueries, web_search_results \in WebTexts,
       chat_id \in ChatArgs :
        \E document_context \in {<<>>, query, Ctx_other} :
            /\ last' = [op |-> "combine_sources",
                        args |-> [query |-> query,
                                  document_context |-> document_context,
                                  web_search_results |-> web_search_results,
                                  chat_id |-> chat_id],
                        outcome |-> IF Sources(chat_documents, documents_metadata,
                                               query, web_search_results,
                                               chat_id) = <<>>
                                    THEN "bare" ELSE "composed",
                        result |-> combine_sources(chat_documents,
                                       documents_metadata, query,
                                       document_context, web_search_results,
                                       chat_id)]
            /\ UNCHANGED <<use_cloudinary, files, chat_documents,
                           documents_metadata>>

NextCompose ==
    \/ ComposeIngest /\ UNCHANGED <<concVars, chunkVars, queryVars>>
    \/ ComposeDelete /\ UNCHANGED <<concVars, chunkVars, queryVars>>
    \/ Combine /\ UNCHANGED <<concVars, chunkVars, queryVars>>

SpecCompose == InitSeq /\ [][NextCompose]_vars

\* a prompt holds a context block
HasContextBlock(prompt) ==
    \E i \in 1..Len(prompt) : prompt[i] \in {T_DocumentContext, T_WebInformation}

\* C10: combine_sources returns the unmodified query exactly when
\* web_search_results is empty and document_context is empty or equal to the
\* query, and every composed prompt it returns holds a Document Context block
\* or a Current Web Information block, whatever the chat holds.
C10_BareQueryIffNoSource ==
    last.op = "combine_sources" =>
        /\ (last.result = last.args.query) <=>
               /\ last.args.web_search_results = <<>>
               /\ \/ last.args.document_context = <<>>
                  \/ last.args.document_context = last.args.query
        /\ last.outcome = "composed" => HasContextBlock(last.result)

---------------------------------------------------------------------------
(* The window end of a chunk_text iteration.                               *)

\* the end an iteration used, read back from `start = end - overlap`
EndUsed(start_after, overlap) == start_after + overlap

\* the scan of the iteration that starts at start meets a sentence end
ScanFindsSentenceEnd(text, start, chunk_size) ==
    /\ start + chunk_size < Len(text)
    /\ \E i \in ScanRange(start, chunk_size) :
           PyIndexOk(text, i) /\ PyIndex(text, i) \in SentenceEnd

\* C11: in every iteration of chunk_text on a text longer than chunk_size the
\* end finally used is at most start + chunk_size, and is start + chunk_size
\* when the scan finds no sentence-ending character, so no chunk collected is
\* longer than chunk_size characters.
C11_SnappingOnlyMovesEndLeft ==
    [][(c_pc = "loop" /\ c_pc' \in {"loop", "done"}) =>
          /\ EndUsed(c_start', c_overlap) <= c_start + c_size
          /\ ~ScanFindsSentenceEnd(c_text, c_start, c_size) =>
                 EndUsed(c_start', c_overlap) = c_start + c_size
          /\ \A k \in 1..Len(c_chunks') : Len(c_chunks'[k]) <= c_size]_vars

====
